---- MODULE Spec2Model ----
(***************************************************************************)
(* The statistics engine of memkeys (src/src/util/stats.cpp): lifecycle    *)
(* controller, aggregation table under one mutex, ingestion loop           *)
(* (collect), pruning loop (prune) and leaderboard query.                  *)
(*                                                                         *)
(* Threads: the caller threads of Callers, the poller thread (collect) and *)
(* the reaper thread (prune).  Every labelled step below is one atomic     *)
(* step of one thread; time advances by Tick in units of the smallest      *)
(* elapsed time the rate computation distinguishes.                        *)
(***************************************************************************)
EXTENDS Integers, Sequences, FiniteSets, TLC

\* Bounds of the model.
MaxEvents == 2
MaxTime == 2
MaxStartCalls == 2

Callers == {"c1", "c2"}
\* The thread that owns the engine.
Owner == "c1"
Poller == "poller"
Reaper == "reaper"
Threads == Callers \cup {Poller, Reaper}
NoThread == "none"

Keys == {"a", "b", "c"}
Sizes == {1, 10}
\* The configured discard thresholds tried: pruning disabled, and one request
\* per unit of time.
Thresholds == {0, 1}
Fingerprints == {1, 2, 3}
None == [none |-> TRUE]

\* SortMode and SortOrder.
mode_CALLS == "calls"
mode_SIZE == "size"
mode_REQRATE == "reqrate"
mode_BANDWIDTH == "bw"
SortModes == {mode_CALLS, mode_SIZE, mode_REQRATE, mode_BANDWIDTH}
sort_ASC == "asc"
sort_DESC == "desc"
SortOrders == {sort_ASC, sort_DESC}

\* Lifecycle states.
state_NEW == "NEW"
state_RUNNING == "RUNNING"
state_STOPPING == "STOPPING"
state_TERMINATED == "TERMINATED"

VARIABLES
  state,            \* Stats::state
  reaper_thread,    \* Stats::reaper_thread: "empty", "joinable" or "joined"
  poller_thread,    \* Stats::poller_thread
  collection,       \* Stats::_collection: fingerprint -> Stat
  mutex,            \* Stats::_mutex: the thread holding it, or NoThread
  barrier,          \* the event queue the poller consumes
  config,           \* config->getDiscardThreshold()
  now,              \* the clock
  pc,               \* the position of every thread
  loc,              \* increment's locals (key, size, the Stat copy), per thread
  it,               \* prune's iterator: the entries the sweep has yet to visit
  backoffMs,        \* collect's static backoffMs
  backoff,          \* collect's static Backoff generator (its current level)
  destroyed,        \* ~Stats has run
  aborted,          \* std::terminate was called
  \* history variables
  nEvents,          \* events produced or injected so far
  applied,          \* per fingerprint: the increments applied since creation
  balance,          \* entries created by increment minus entries removed by prune
  sweepStart,       \* the fingerprints present when the sweep took the lock
  sweepLog,         \* what the sweep examined: fingerprint, Stat, time, verdict
  startsReturned,   \* start() calls that have returned
  noopShutdowns,    \* the states in which a shutdown() call found nothing to do
  spawned,          \* threads ever spawned: [reaper |-> n, poller |-> n]
  shutdownDone,     \* a shutdown() that performed RUNNING->STOPPING returned
  leaders,          \* per order, what the last getLeaders call returned
  statCount,        \* what the last getStatCount call read, and beside whom
  evicted,          \* the fingerprints of the entries sweeps have removed
  late              \* what a loop did since the state left RUNNING, until it exits

vars == <<state, reaper_thread, poller_thread, collection, mutex, barrier,
          config, now, pc, loc, it, backoffMs, backoff, destroyed, aborted,
          nEvents, applied, balance, sweepStart, sweepLog,
          startsReturned, noopShutdowns, spawned, shutdownDone, leaders,
          statCount, evicted, late>>

lifecycle == <<state, reaper_thread, poller_thread, destroyed, aborted,
               startsReturned, noopShutdowns, spawned, shutdownDone>>
table == <<collection, mutex, applied, balance>>
sweep == <<it, sweepStart, sweepLog>>
poll == <<backoffMs, backoff>>

----------------------------------------------------------------------------
\* Stat (declared in stat.h, which is not part of the sources at hand).

\* Stat::hashKey: the fingerprint of a key; "a" and "b" collide, and "d" is
\* a key that only tables at rest hold.
hashKey(key) == IF key \in {"a", "b"} THEN 1 ELSE IF key = "c" THEN 2 ELSE 3

\* Stat(key, size): count 1, created now.
NewStat(key, size, t) == [key |-> key, size |-> size, count |-> 1, created |-> t]

Max(a, b) == IF a >= b THEN a ELSE b
Min(a, b) == IF a <= b THEN a ELSE b

\* Stat::elapsed at time t, at least one unit.
elapsed(stat, t) == Max(t - stat.created, 1)

\* Stat::requestRate() < threshold, with requestRate = count / elapsed.
RequestRateBelow(stat, t, threshold) == stat.count < threshold * elapsed(stat, t)

\* AtomicState::checkAndSet(expect, to) succeeds iff the state is expect.
checkAndSet(expect) == state = expect
\* AtomicState::isRunning
isRunning == state = state_RUNNING

Alive == ~destroyed /\ ~aborted

----------------------------------------------------------------------------
Init ==
  /\ state = state_NEW
  /\ reaper_thread = "empty"
  /\ poller_thread = "empty"
  /\ collection = << >>
  /\ mutex = NoThread
  /\ barrier = << >>
  /\ config \in Thresholds
  /\ now = 0
  /\ pc = [t \in Threads |-> IF t \in Callers THEN "idle" ELSE "unborn"]
  /\ loc = [t \in Threads |-> None]
  /\ it = {}
  /\ backoffMs = 0
  /\ backoff = 0
  /\ destroyed = FALSE
  /\ aborted = FALSE
  /\ nEvents = 0
  /\ applied = << >>
  /\ balance = 0
  /\ sweepStart = {}
  /\ sweepLog = {}
  /\ startsReturned = 0
  /\ noopShutdowns = {}
  /\ spawned = [reaper |-> 0, poller |-> 0]
  /\ shutdownDone = FALSE
  /\ leaders = [o \in SortOrders |-> None]
  /\ statCount = None
  /\ evicted = {}
  /\ late = {}

----------------------------------------------------------------------------
\* Lifecycle: start, shutdown, ~Stats.

InStart(c) == pc[c] \in {"start_reaper", "start_poller"}

\* start(), lines 49-50 and 53-55, with the outcome of the compare-and-set:
\* the state becomes RUNNING and the caller goes on to spawn the threads, or
\* the caller logs the warning and returns.
StartIf(c, swapped) ==
  /\ Alive /\ pc[c] = "idle"
  /\ startsReturned + Cardinality({d \in Callers : InStart(d)}) < MaxStartCalls
  /\ IF swapped
       THEN /\ state' = state_RUNNING
            /\ pc' = [pc EXCEPT ![c] = "start_reaper"]
            /\ UNCHANGED startsReturned
       ELSE /\ startsReturned' = startsReturned + 1
            /\ UNCHANGED <<state, pc>>
  /\ UNCHANGED <<leaders, statCount, evicted, late>>
  /\ UNCHANGED <<reaper_thread, poller_thread, destroyed, aborted, noopShutdowns,
                 spawned, shutdownDone, table, sweep, poll, barrier, config,
                 now, loc, nEvents>>

StartCallUnchecked(c) == StartIf(c, TRUE)

StartCallWhileRunning(c) == StartIf(c, state \in {state_NEW, state_RUNNING})

\* start(), lines 48-56: state.checkAndSet(state_NEW, state_RUNNING).
StartCall(c) == StartIf(c, checkAndSet(state_NEW))

\* start(), line 51: reaper_thread = thread(&Stats::prune, this).  Assigning to
\* a joinable std::thread calls std::terminate.
StartSpawnReaper(c) ==
  /\ Alive /\ pc[c] = "start_reaper"
  /\ IF reaper_thread = "joinable"
       THEN /\ aborted' = TRUE
            /\ UNCHANGED <<reaper_thread, pc, spawned>>
       ELSE /\ reaper_thread' = "joinable"
            /\ pc' = [pc EXCEPT ![c] = "start_poller", ![Reaper] = "init"]
            /\ spawned' = [spawned EXCEPT !.reaper = @ + 1]
            /\ UNCHANGED aborted
  /\ UNCHANGED <<leaders, statCount, evicted, late>>
  /\ UNCHANGED <<state, poller_thread, destroyed, startsReturned, noopShutdowns,
                 shutdownDone, table, sweep, poll, barrier, config, now, loc,
                 nEvents>>

\* start(), line 52: poller_thread = thread(&Stats::collect, this).
StartSpawnPoller(c) ==
  /\ Alive /\ pc[c] = "start_poller"
  /\ IF poller_thread = "joinable"
       THEN /\ aborted' = TRUE
            /\ UNCHANGED <<poller_thread, pc, spawned, startsReturned>>
       ELSE /\ poller_thread' = "joinable"
            /\ pc' = [pc EXCEPT ![c] = "idle", ![Poller] = "check"]
            /\ spawned' = [spawned EXCEPT !.poller = @ + 1]
            /\ startsReturned' = startsReturned + 1
            /\ UNCHANGED aborted
  /\ UNCHANGED <<leaders, statCount, evicted, late>>
  /\ UNCHANGED <<state, reaper_thread, destroyed, noopShutdowns, shutdownDone,
                 table, sweep, poll, barrier, config, now, loc, nEvents>>

\* shutdown(), lines 59-61 and 66-68, with the outcome of the compare-and-set:
\* the state becomes STOPPING and the caller goes on to join the threads, or
\* the caller logs the warning and returns.
ShutdownIf(c, swapped) ==
  /\ Alive /\ pc[c] = "idle"
  /\ IF swapped
       THEN /\ state' = state_STOPPING
            /\ pc' = [pc EXCEPT ![c] = "join_reaper"]
            /\ UNCHANGED noopShutdowns
       ELSE /\ noopShutdowns' = noopShutdowns \cup {state}
            /\ UNCHANGED <<state, pc>>
  /\ UNCHANGED <<leaders, statCount, evicted, late>>
  /\ UNCHANGED <<reaper_thread, poller_thread, destroyed, aborted,
                 startsReturned, spawned, shutdownDone, table, sweep, poll,
                 barrier, config, now, loc, nEvents>>

ShutdownCallAlwaysJoins(c) ==
  /\ Alive /\ pc[c] = "idle"
  /\ noopShutdowns' = IF checkAndSet(state_RUNNING) THEN noopShutdowns
                      ELSE noopShutdowns \cup {state}
  /\ state' = IF checkAndSet(state_RUNNING) THEN state_STOPPING ELSE state
  /\ pc' = [pc EXCEPT ![c] = "join_reaper"]
  /\ UNCHANGED <<leaders, statCount, evicted, late>>
  /\ UNCHANGED <<reaper_thread, poller_thread, destroyed, aborted,
                 startsReturned, spawned, shutdownDone, table, sweep, poll,
                 barrier, config, now, loc, nEvents>>

\* shutdown(), lines 58-61 and 66-69: state.checkAndSet(state_RUNNING,
\* state_STOPPING).
ShutdownCall(c) == ShutdownIf(c, checkAndSet(state_RUNNING))

ReturnedOrNot(t) == TRUE

\* std::thread::join returns once the thread's function has returned.
Returned(t) == pc[t] = "done"

ShutdownJoinReaperSkipped(c) ==
  /\ Alive /\ pc[c] = "join_reaper"
  /\ pc' = [pc EXCEPT ![c] = "join_poller"]
  /\ UNCHANGED <<leaders, statCount, evicted, late>>
  /\ UNCHANGED <<lifecycle, table, sweep, poll, barrier, config, now, loc,
                 nEvents>>

\* shutdown(), line 62: reaper_thread.join() waits for prune to return; join
\* on a thread that is not joinable throws std::system_error out of shutdown.
ShutdownJoinReaper(c) ==
  /\ Alive /\ pc[c] = "join_reaper"
  /\ IF reaper_thread = "joinable"
       THEN /\ Returned(Reaper)
            /\ reaper_thread' = "joined"
            /\ pc' = [pc EXCEPT ![c] = "join_poller"]
       ELSE /\ pc' = [pc EXCEPT ![c] = "thrown"]
            /\ UNCHANGED reaper_thread
  /\ UNCHANGED <<leaders, statCount, evicted, late>>
  /\ UNCHANGED <<state, poller_thread, destroyed, aborted, startsReturned,
                 noopShutdowns, spawned, shutdownDone, table, sweep, poll,
                 barrier, config, now, loc, nEvents>>

\* shutdown(), lines 64-65: poller_thread.join(), then the return.
ShutdownJoinPoller(c) ==
  /\ Alive /\ pc[c] = "join_poller"
  /\ IF poller_thread = "joinable"
       THEN /\ Returned(Poller)
            /\ poller_thread' = "joined"
            /\ pc' = [pc EXCEPT ![c] = "idle"]
            /\ shutdownDone' = TRUE
       ELSE /\ pc' = [pc EXCEPT ![c] = "thrown"]
            /\ UNCHANGED <<poller_thread, shutdownDone>>
  /\ UNCHANGED <<leaders, statCount, evicted, late>>
  /\ UNCHANGED <<state, reaper_thread, destroyed, aborted, startsReturned,
                 noopShutdowns, spawned, table, sweep, poll, barrier, config,
                 now, loc, nEvents>>

\* ~Stats, lines 39-46, run by the owner once no call is in progress; the
\* members are destroyed after the body, and destroying a joinable std::thread
\* calls std::terminate.
Teardown ==
  /\ Alive
  /\ \A c \in Callers : pc[c] \in {"idle", "thrown"}
  /\ state' = IF checkAndSet(state_STOPPING) THEN state_TERMINATED ELSE state
  /\ destroyed' = TRUE
  /\ aborted' = ("joinable" \in {reaper_thread, poller_thread})
  /\ UNCHANGED <<leaders, statCount, evicted, late>>
  /\ UNCHANGED <<reaper_thread, poller_thread, startsReturned, noopShutdowns,
                 spawned, shutdownDone, table, sweep, poll, barrier, config,
                 now, pc, loc, nEvents>>

----------------------------------------------------------------------------
\* The aggregation table: increment.

LockableAlways(t) == TRUE

LockableDuringSweep(t) == mutex \in {NoThread, Reaper}

\* _mutex.lock() returns once no thread holds the mutex.
Lockable(t) == mutex = NoThread

UpdatedKeepsSize(stat, size) == [stat EXCEPT !.count = @ + 1]

UpdatedAtNow(stat, size) ==
  [stat EXCEPT !.size = size, !.count = @ + 1, !.created = now]

\* increment, lines 76-80: the copy of the entry with the size overwritten
\* and the count incremented.
Updated(stat, size) == [stat EXCEPT !.size = size, !.count = @ + 1]

\* increment, lines 72-75: the fingerprint, the lock and the lookup; loc holds
\* the key, the size and what find returned (whether an entry was found, and
\* the copy of its Stat).
IncLockFind(t, key, size) ==
  /\ Lockable(t)
  /\ mutex' = t
  /\ loc' = [loc EXCEPT ![t] =
               [key |-> key, size |-> size,
                found |-> hashKey(key) \in DOMAIN collection,
                stat |-> IF hashKey(key) \in DOMAIN collection
                           THEN collection[hashKey(key)] ELSE None]]
  /\ UNCHANGED <<collection, applied, balance>>

StoredOnlyUpdates(l, t) ==
  IF l.found
    THEN [g \in DOMAIN collection \cup {hashKey(l.key)} |->
            IF g = hashKey(l.key) THEN Updated(l.stat, l.size) ELSE collection[g]]
    ELSE collection

StoredTakesKey(l, t) ==
  LET f == hashKey(l.key) IN
  IF l.found
    THEN [g \in DOMAIN collection \cup {f} |->
            IF g = f THEN [Updated(l.stat, l.size) EXCEPT !.key = l.key]
            ELSE collection[g]]
    ELSE IF f \in DOMAIN collection
      THEN collection
      ELSE [g \in DOMAIN collection \cup {f} |->
              IF g = f THEN NewStat(l.key, l.size, t) ELSE collection[g]]

\* The table after lines 76-91: _collection[_key] = stat for an entry that was
\* found, insert (which leaves an existing entry alone) otherwise.
Stored(l, t) ==
  LET f == hashKey(l.key) IN
  IF l.found
    THEN [g \in DOMAIN collection \cup {f} |->
            IF g = f THEN Updated(l.stat, l.size) ELSE collection[g]]
    ELSE IF f \in DOMAIN collection
      THEN collection
      ELSE [g \in DOMAIN collection \cup {f} |->
              IF g = f THEN NewStat(l.key, l.size, t) ELSE collection[g]]

\* The history of the increments applied to the entry of a fingerprint since
\* the entry was created: their number, the last size, and whether all of
\* them carried the key that created the entry.
Recorded(l, inserted) ==
  LET f == hashKey(l.key) IN
  [g \in DOMAIN applied \cup {f} |->
     IF g # f THEN applied[g]
     ELSE IF inserted \/ f \notin DOMAIN applied
       THEN [n |-> 1, last |-> l.size, key |-> l.key, pure |-> TRUE]
       ELSE [n |-> applied[f].n + 1, last |-> l.size, key |-> applied[f].key,
             pure |-> applied[f].pure /\ l.key = applied[f].key]]

\* increment, lines 76-92: the update or the insertion, and the unlock.
IncStoreUnlock(t) ==
  LET l == loc[t]
      inserted == ~l.found /\ hashKey(l.key) \notin DOMAIN collection IN
  /\ collection' = Stored(l, now)
  /\ applied' = Recorded(l, inserted)
  /\ balance' = IF inserted THEN balance + 1 ELSE balance
  /\ mutex' = IF mutex = t THEN NoThread ELSE mutex
  /\ loc' = [loc EXCEPT ![t] = None]

\* A caller thread calls increment(key, size).
Increment(c, key, size) ==
  /\ Alive /\ pc[c] = "idle"
  /\ nEvents < MaxEvents
  /\ nEvents' = nEvents + 1
  /\ IncLockFind(c, key, size)
  /\ pc' = [pc EXCEPT ![c] = "inc_store"]
  /\ UNCHANGED <<leaders, statCount, evicted, late>>
  /\ UNCHANGED <<lifecycle, sweep, poll, barrier, config, now>>

IncrementReturn(c) ==
  /\ Alive /\ pc[c] = "inc_store"
  /\ IncStoreUnlock(c)
  /\ pc' = [pc EXCEPT ![c] = "idle"]
  /\ UNCHANGED <<leaders, statCount, evicted, late>>
  /\ UNCHANGED <<lifecycle, sweep, poll, barrier, config, now, nEvents>>

----------------------------------------------------------------------------
\* The leaderboard query: getLeaders.

\* The comparators SortByCount, SortBySize, SortByReqRate and SortByBandwidth
\* (stat.h): s1 ranks above s2 at time t.  requestRate is count / elapsed and
\* bandwidth is size * requestRate; the quotients are compared by cross
\* multiplication.
Above(mode, s1, s2, t) ==
  CASE mode = mode_CALLS -> s1.count > s2.count
    [] mode = mode_SIZE -> s1.size > s2.size
    [] mode = mode_REQRATE ->
         s1.count * elapsed(s2, t) > s2.count * elapsed(s1, t)
    [] mode = mode_BANDWIDTH ->
         s1.size * s1.count * elapsed(s2, t) > s2.size * s2.count * elapsed(s1, t)

\* The template getLeaders<T>() (stats.h): one copy of every entry of the
\* table, sorted descending by the comparator; entries that compare equal
\* keep the order in which the table iterates, which is by fingerprint.
RECURSIVE SortedLeaders(_, _)
SortedLeaders(mode, fps) ==
  IF fps = {} THEN << >>
  ELSE LET top == CHOOSE f \in fps :
                    \A g \in fps \ {f} :
                      \/ Above(mode, collection[f], collection[g], now)
                      \/ /\ ~Above(mode, collection[g], collection[f], now)
                         /\ f < g
       IN <<collection[top]>> \o SortedLeaders(mode, fps \ {top})

\* std::reverse(holder.begin(), holder.end()).
Reverse(holder) == [i \in 1..Len(holder) |-> holder[Len(holder) + 1 - i]]

getLeadersIgnoresOrder(mode, order) == SortedLeaders(mode, DOMAIN collection)

\* getLeaders(mode, order), lines 95-115.
getLeaders(mode, order) ==
  LET holder == SortedLeaders(mode, DOMAIN collection) IN
  IF order = sort_ASC THEN Reverse(holder) ELSE holder

\* A caller thread calls getLeaders(mode, order) and keeps the result.
GetLeaders(c, mode, order) ==
  /\ Alive /\ pc[c] = "idle"
  /\ leaders' = [leaders EXCEPT ![order] =
                   [mode |-> mode, holder |-> getLeaders(mode, order)]]
  /\ UNCHANGED <<statCount, evicted, late>>
  /\ UNCHANGED <<lifecycle, table, sweep, poll, barrier, config, now, pc, loc,
                 nEvents>>

\* What a read of _collection.size() can return: the number of entries, or,
\* beside a thread that is changing the table, any number the table can hold
\* (a data race).
SizeRead ==
  IF mutex = NoThread THEN {Cardinality(DOMAIN collection)}
  ELSE 0..Cardinality(Fingerprints)

\* A caller thread calls getStatCount(), lines 140-142: _collection.size() is
\* read without the lock; statCount keeps the value and the thread that held
\* the lock during the read.
GetStatCount(c) ==
  /\ Alive /\ pc[c] = "idle"
  /\ \E n \in SizeRead : statCount' = [size |-> n, holder |-> mutex]
  /\ UNCHANGED <<leaders, evicted, late>>
  /\ UNCHANGED <<lifecycle, table, sweep, poll, barrier, config, now, pc, loc,
                 nEvents>>

----------------------------------------------------------------------------
\* The ingestion loop: collect.

\* Backoff (backoff.h, not part of the sources at hand): the levels of the
\* generator run from 0, its floor, to BackoffCap.
BackoffCap == 1
\* Backoff::getNextBackOffMillis: the duration of the current level; the
\* level grows up to the cap.  Backoff::reset returns to level 0.
getNextBackOffMillis == backoff
Grown == Min(backoff + 1, BackoffCap)

CollectCheckOnce ==
  /\ ~aborted /\ pc[Poller] = "check"
  /\ pc' = [pc EXCEPT ![Poller] = "consume"]
  /\ UNCHANGED <<leaders, statCount, evicted, late>>
  /\ UNCHANGED <<lifecycle, table, sweep, poll, barrier, config, now, loc,
                 nEvents>>

\* collect, line 153: while (state.isRunning()); late is kept until the
\* loop exits.
CollectCheck ==
  /\ ~aborted /\ pc[Poller] = "check"
  /\ pc' = [pc EXCEPT ![Poller] = IF isRunning THEN "consume" ELSE "done"]
  /\ late' = IF isRunning THEN late ELSE late \ {"consume", "apply", "sleep"}
  /\ UNCHANGED <<leaders, statCount, evicted>>
  /\ UNCHANGED <<lifecycle, table, sweep, poll, barrier, config, now, loc,
                 nEvents>>

\* collect, lines 154 and 164-174: barrier->consume(e); when the queue is
\* empty, the next backoff duration and, if it is positive, the sleep.  late
\* records a consume and a sleep that happen once the state is not RUNNING.
CollectConsume ==
  /\ ~aborted /\ pc[Poller] = "consume"
  /\ IF barrier # << >>
       THEN /\ barrier' = Tail(barrier)
            /\ loc' = [loc EXCEPT ![Poller] =
                         [key |-> Head(barrier).key, size |-> Head(barrier).size]]
            /\ pc' = [pc EXCEPT ![Poller] = "inc_lock"]
            /\ late' = IF isRunning THEN late ELSE late \cup {"consume"}
            /\ UNCHANGED poll
       ELSE /\ backoffMs' = getNextBackOffMillis
            /\ backoff' = Grown
            /\ pc' = [pc EXCEPT ![Poller] = "check"]
            /\ late' = IF isRunning \/ getNextBackOffMillis = 0
                         THEN late ELSE late \cup {"sleep"}
            /\ UNCHANGED <<barrier, loc>>
  /\ UNCHANGED <<leaders, statCount, evicted>>
  /\ UNCHANGED <<lifecycle, table, sweep, config, now, nEvents>>

\* collect, line 159: increment(e.first, e.second), up to the lookup.
CollectIncrement ==
  /\ ~aborted /\ pc[Poller] = "inc_lock"
  /\ IncLockFind(Poller, loc[Poller].key, loc[Poller].size)
  /\ pc' = [pc EXCEPT ![Poller] = "inc_store"]
  /\ UNCHANGED <<leaders, statCount, evicted, late>>
  /\ UNCHANGED <<lifecycle, sweep, poll, barrier, config, now, nEvents>>

\* collect, lines 159-163 and 172: the rest of increment and the reset of the
\* backoff; backoffMs is then 0 and the loop does not sleep.  late records an
\* event applied once the state is not RUNNING.
CollectIncrementReturn ==
  /\ ~aborted /\ pc[Poller] = "inc_store"
  /\ IncStoreUnlock(Poller)
  /\ IF backoffMs > 0
       THEN backoffMs' = 0 /\ backoff' = 0
       ELSE UNCHANGED poll
  /\ pc' = [pc EXCEPT ![Poller] = "check"]
  /\ late' = IF isRunning THEN late ELSE late \cup {"apply"}
  /\ UNCHANGED <<leaders, statCount, evicted>>
  /\ UNCHANGED <<lifecycle, sweep, barrier, config, now, nEvents>>

----------------------------------------------------------------------------
\* The pruning loop: prune.

PruningNeverDisabled(threshold) == FALSE

\* prune, line 185: the threshold that disables pruning.
PruningDisabled(threshold) == threshold = 0

\* prune, lines 180-185: the threshold is read and the loop chosen.
PruneInit ==
  /\ ~aborted /\ pc[Reaper] = "init"
  /\ pc' = [pc EXCEPT ![Reaper] =
              IF PruningDisabled(config) THEN "idle" ELSE "check"]
  /\ UNCHANGED <<leaders, statCount, evicted, late>>
  /\ UNCHANGED <<lifecycle, table, sweep, poll, barrier, config, now, loc,
                 nEvents>>

PruneIdleForever ==
  /\ ~aborted /\ pc[Reaper] = "idle"
  /\ pc' = [pc EXCEPT ![Reaper] = "idle"]
  /\ UNCHANGED <<leaders, statCount, evicted, late>>
  /\ UNCHANGED <<lifecycle, table, sweep, poll, barrier, config, now, loc,
                 nEvents>>

\* prune, lines 186-189: the idle loop; sleep(1) while the state is RUNNING.
PruneIdle ==
  /\ ~aborted /\ pc[Reaper] = "idle"
  /\ pc' = [pc EXCEPT ![Reaper] = IF isRunning THEN "idle" ELSE "done"]
  /\ UNCHANGED <<leaders, statCount, evicted, late>>
  /\ UNCHANGED <<lifecycle, table, sweep, poll, barrier, config, now, loc,
                 nEvents>>

\* prune, line 191: while (state.isRunning()); late is kept until the loop
\* exits.
PruneCheck ==
  /\ ~aborted /\ pc[Reaper] = "check"
  /\ pc' = [pc EXCEPT ![Reaper] = IF isRunning THEN "lock" ELSE "done"]
  /\ late' = IF isRunning THEN late ELSE late \ {"sweep"}
  /\ UNCHANGED <<leaders, statCount, evicted>>
  /\ UNCHANGED <<lifecycle, table, sweep, poll, barrier, config, now, loc,
                 nEvents>>

\* prune, lines 192-194: the lock and it = _collection.begin(); late records
\* a sweep that starts once the state is not RUNNING.
PruneLock ==
  /\ ~aborted /\ pc[Reaper] = "lock"
  /\ Lockable(Reaper)
  /\ mutex' = Reaper
  /\ it' = DOMAIN collection
  /\ sweepStart' = DOMAIN collection
  /\ sweepLog' = {}
  /\ pc' = [pc EXCEPT ![Reaper] = "scan"]
  /\ late' = IF isRunning THEN late ELSE late \cup {"sweep"}
  /\ UNCHANGED <<leaders, statCount, evicted>>
  /\ UNCHANGED <<lifecycle, collection, applied, balance, poll,
                 barrier, config, now, loc, nEvents>>

ShouldEraseAtThreshold(stat, t, threshold) ==
  stat.count <= threshold * elapsed(stat, t)

ShouldEraseByCount(stat, t, threshold) == stat.count < threshold

\* prune, line 197: the test that decides the eviction of an entry.
ShouldErase(stat, t, threshold) == RequestRateBelow(stat, t, threshold)

\* The iterator after one step of the loop of lines 195-202, from entry f.
Advanced(f, erased) == it \ {f}

\* prune, lines 195-202: one iteration of the sweep; the entries are visited
\* in the order of the hash table, which is any order.
PruneScan ==
  /\ ~aborted /\ pc[Reaper] = "scan"
  /\ \E f \in it \cap DOMAIN collection :
       LET stat == collection[f]
           erase == ShouldErase(stat, now, config) IN
       /\ collection' = IF erase
                          THEN [g \in DOMAIN collection \ {f} |-> collection[g]]
                          ELSE collection
       /\ applied' = IF erase
                       THEN [g \in DOMAIN applied \ {f} |-> applied[g]]
                       ELSE applied
       /\ balance' = IF erase THEN balance - 1 ELSE balance
       /\ it' = Advanced(f, erase)
       /\ sweepLog' = sweepLog \cup
                        {[fp |-> f, stat |-> stat, at |-> now, removed |-> erase]}
       /\ evicted' = IF erase THEN evicted \cup {f} ELSE evicted
  /\ UNCHANGED <<leaders, statCount, late>>
  /\ UNCHANGED <<lifecycle, mutex, sweepStart, poll, barrier, config,
                 now, pc, loc, nEvents>>

\* prune, lines 195 and 203-208: the end of the sweep, rehash, the unlock and
\* sleep(5).
PruneUnlock ==
  /\ ~aborted /\ pc[Reaper] = "scan"
  /\ it \cap DOMAIN collection = {}
  /\ mutex' = IF mutex = Reaper THEN NoThread ELSE mutex
  /\ it' = {}
  /\ sweepStart' = {}
  /\ sweepLog' = {}
  /\ pc' = [pc EXCEPT ![Reaper] = "check"]
  /\ UNCHANGED <<leaders, statCount, evicted, late>>
  /\ UNCHANGED <<lifecycle, collection, applied, balance, poll,
                 barrier, config, now, loc, nEvents>>

----------------------------------------------------------------------------
\* The environment: the producer of events and the clock.

Produce(key, size) ==
  /\ Alive
  /\ nEvents < MaxEvents
  /\ nEvents' = nEvents + 1
  /\ barrier' = Append(barrier, [key |-> key, size |-> size])
  /\ UNCHANGED <<leaders, statCount, evicted, late>>
  /\ UNCHANGED <<lifecycle, table, sweep, poll, config, now, pc, loc>>

\* Only the difference between the clock and the creation time of an entry
\* is ever read (Stat::elapsed), so the clock runs while the table holds an
\* entry.
Tick ==
  /\ Alive
  /\ now < MaxTime
  /\ DOMAIN collection # {}
  /\ now' = now + 1
  /\ UNCHANGED <<leaders, statCount, evicted, late>>
  /\ UNCHANGED <<lifecycle, table, sweep, poll, barrier, config, pc, loc,
                 nEvents>>

\* The whole system: every caller thread may make every call.
Next ==
  \/ \E c \in Callers : StartCall(c)
  \/ \E c \in Callers : StartSpawnReaper(c)
  \/ \E c \in Callers : StartSpawnPoller(c)
  \/ \E c \in Callers : ShutdownCall(c)
  \/ \E c \in Callers : ShutdownJoinReaper(c)
  \/ \E c \in Callers : ShutdownJoinPoller(c)
  \/ Teardown
  \/ \E c \in Callers, key \in Keys, size \in Sizes : Increment(c, key, size)
  \/ \E c \in Callers : IncrementReturn(c)
  \/ CollectCheck
  \/ CollectConsume
  \/ CollectIncrement
  \/ CollectIncrementReturn
  \/ PruneInit
  \/ PruneIdle
  \/ PruneCheck
  \/ PruneLock
  \/ PruneScan
  \/ PruneUnlock
  \/ \E c \in Callers, mode \in SortModes, order \in SortOrders :
       GetLeaders(c, mode, order)
  \/ \E c \in Callers : GetStatCount(c)
  \/ \E key \in Keys, size \in Sizes : Produce(key, size)
  \/ Tick

Spec == Init /\ [][Next]_vars

\* The engine in its intended use: the owner thread calls start once and
\* shutdown once the engine runs, and every caller thread injects events.
NextEngine ==
  \/ (startsReturned = 0 /\ StartCall(Owner))
  \/ StartSpawnReaper(Owner)
  \/ StartSpawnPoller(Owner)
  \/ (isRunning /\ ShutdownCall(Owner))
  \/ ShutdownJoinReaper(Owner)
  \/ ShutdownJoinPoller(Owner)
  \/ \E c \in Callers, key \in Keys, size \in Sizes : Increment(c, key, size)
  \/ \E c \in Callers : IncrementReturn(c)
  \/ CollectCheck
  \/ CollectConsume
  \/ CollectIncrement
  \/ CollectIncrementReturn
  \/ PruneInit
  \/ PruneIdle
  \/ PruneCheck
  \/ PruneLock
  \/ PruneScan
  \/ PruneUnlock
  \/ \E key \in Keys, size \in Sizes : Produce(key, size)
  \/ Tick

SpecEngine == Init /\ [][NextEngine]_vars

\* The lifecycle under misuse: every caller thread may call start and
\* shutdown at any time, the owner may destroy the engine, and the events
\* all carry one key and one size.
NextLifecycle ==
  \/ \E c \in Callers : StartCall(c)
  \/ \E c \in Callers : StartSpawnReaper(c)
  \/ \E c \in Callers : StartSpawnPoller(c)
  \/ \E c \in Callers : ShutdownCall(c)
  \/ \E c \in Callers : ShutdownJoinReaper(c)
  \/ \E c \in Callers : ShutdownJoinPoller(c)
  \/ Teardown
  \/ \E c \in Callers : Increment(c, "a", 1)
  \/ \E c \in Callers : IncrementReturn(c)
  \/ CollectCheck
  \/ CollectConsume
  \/ CollectIncrement
  \/ CollectIncrementReturn
  \/ PruneInit
  \/ PruneIdle
  \/ PruneCheck
  \/ PruneLock
  \/ PruneScan
  \/ PruneUnlock
  \/ Produce("a", 1)
  \/ Tick

SpecLifecycle == Init /\ [][NextLifecycle]_vars

\* The table read while it changes: the owner starts the engine, every caller
\* thread injects events and calls getStatCount.
NextReaders ==
  \/ (startsReturned = 0 /\ StartCall(Owner))
  \/ StartSpawnReaper(Owner)
  \/ StartSpawnPoller(Owner)
  \/ \E c \in Callers : Increment(c, "a", 1)
  \/ \E c \in Callers : IncrementReturn(c)
  \/ \E c \in Callers : GetStatCount(c)
  \/ CollectCheck
  \/ CollectConsume
  \/ CollectIncrement
  \/ CollectIncrementReturn
  \/ PruneInit
  \/ PruneIdle
  \/ PruneCheck
  \/ PruneLock
  \/ PruneScan
  \/ PruneUnlock
  \/ Produce("c", 1)
  \/ Tick

SpecReaders == Init /\ [][NextReaders]_vars

\* The engine under fair scheduling: the owner starts it and shuts it down,
\* another thread injects events of one key, and the threshold is 0, one or
\* two requests per unit of time.
FairThresholds == {0, 1, 2}

InitFair ==
  /\ state = state_NEW
  /\ reaper_thread = "empty"
  /\ poller_thread = "empty"
  /\ collection = << >>
  /\ mutex = NoThread
  /\ barrier = << >>
  /\ config \in FairThresholds
  /\ now = 0
  /\ pc = [t \in Threads |-> IF t \in Callers THEN "idle" ELSE "unborn"]
  /\ loc = [t \in Threads |-> None]
  /\ it = {}
  /\ backoffMs = 0
  /\ backoff = 0
  /\ destroyed = FALSE
  /\ aborted = FALSE
  /\ nEvents = 0
  /\ applied = << >>
  /\ balance = 0
  /\ sweepStart = {}
  /\ sweepLog = {}
  /\ startsReturned = 0
  /\ noopShutdowns = {}
  /\ spawned = [reaper |-> 0, poller |-> 0]
  /\ shutdownDone = FALSE
  /\ leaders = [o \in SortOrders |-> None]
  /\ statCount = None
  /\ evicted = {}
  /\ late = {}

NextFair ==
  \/ (startsReturned = 0 /\ StartCall(Owner))
  \/ StartSpawnReaper(Owner)
  \/ StartSpawnPoller(Owner)
  \/ (isRunning /\ ShutdownCall(Owner))
  \/ ShutdownJoinReaper(Owner)
  \/ ShutdownJoinPoller(Owner)
  \/ Increment("c2", "a", 1)
  \/ IncrementReturn("c2")
  \/ CollectCheck
  \/ CollectConsume
  \/ CollectIncrement
  \/ CollectIncrementReturn
  \/ PruneInit
  \/ PruneIdle
  \/ PruneCheck
  \/ PruneLock
  \/ PruneScan
  \/ PruneUnlock
  \/ Produce("a", 1)
  \/ Tick

\* Every thread that can take a step eventually takes it: the two loops, the
\* owner inside start and shutdown, and a caller inside increment.  consume,
\* nanosleep and sleep return (they are parts of the steps), and the clock
\* advances.  Nothing obliges a caller to call, or the producer to produce.
Fairness ==
  /\ WF_vars(StartSpawnReaper(Owner))
  /\ WF_vars(StartSpawnPoller(Owner))
  /\ WF_vars(ShutdownJoinReaper(Owner))
  /\ WF_vars(ShutdownJoinPoller(Owner))
  /\ WF_vars(IncrementReturn("c2"))
  /\ WF_vars(CollectCheck)
  /\ WF_vars(CollectConsume)
  /\ WF_vars(CollectIncrement)
  /\ WF_vars(CollectIncrementReturn)
  /\ WF_vars(PruneInit)
  /\ WF_vars(PruneIdle)
  /\ WF_vars(PruneCheck)
  /\ WF_vars(PruneLock)
  /\ WF_vars(PruneScan)
  /\ WF_vars(PruneUnlock)
  /\ WF_vars(Tick)

SpecFair == InitFair /\ [][NextFair]_vars /\ Fairness

\* The leaderboard of a table at rest: the engine was never started, the
\* table holds what earlier increments left in it, and the owner queries it.
MaxCount == 2

\* The Stats an entry of fingerprint f can hold after at most MaxCount
\* increments at time 0.
StatsOf(f) ==
  [key : {k \in Keys \cup {"d"} : hashKey(k) = f}, size : Sizes,
   count : 1..MaxCount, created : {0}]

RECURSIVE TotalCount(_, _)
TotalCount(coll, fps) ==
  IF fps = {} THEN 0
  ELSE LET f == CHOOSE g \in fps : TRUE
       IN coll[f].count + TotalCount(coll, fps \ {f})

InitLeaders ==
  /\ \E fps \in SUBSET Fingerprints :
       /\ collection \in [fps -> UNION {StatsOf(f) : f \in Fingerprints}]
       /\ \A f \in fps : collection[f] \in StatsOf(f)
  /\ applied = [f \in DOMAIN collection |->
                  [n |-> collection[f].count, last |-> collection[f].size,
                   key |-> collection[f].key, pure |-> TRUE]]
  /\ balance = Cardinality(DOMAIN collection)
  /\ nEvents = TotalCount(collection, DOMAIN collection)
  /\ state = state_NEW
  /\ reaper_thread = "empty"
  /\ poller_thread = "empty"
  /\ mutex = NoThread
  /\ barrier = << >>
  /\ config \in Thresholds
  /\ now = 0
  /\ pc = [t \in Threads |-> IF t \in Callers THEN "idle" ELSE "unborn"]
  /\ loc = [t \in Threads |-> None]
  /\ it = {}
  /\ backoffMs = 0
  /\ backoff = 0
  /\ destroyed = FALSE
  /\ aborted = FALSE
  /\ sweepStart = {}
  /\ sweepLog = {}
  /\ startsReturned = 0
  /\ noopShutdowns = {}
  /\ spawned = [reaper |-> 0, poller |-> 0]
  /\ shutdownDone = FALSE
  /\ leaders = [o \in SortOrders |-> None]
  /\ statCount = None
  /\ evicted = {}
  /\ late = {}

NextLeaders ==
  \/ \E mode \in SortModes, order \in SortOrders : GetLeaders(Owner, mode, order)
  \/ Tick

SpecLeaders == InitLeaders /\ [][NextLeaders]_vars

----------------------------------------------------------------------------
\* Properties of the aggregation table, checked under SpecEngine.

\* A thread is inside the read-modify-write of increment, or inside a sweep.
InCritical(t) ==
  IF t = Reaper THEN pc[t] = "scan" ELSE pc[t] = "inc_store"

\* The sweep has visited every entry and has not released the lock yet.
SweepFinished == pc[Reaper] = "scan" /\ it \cap DOMAIN collection = {}

\* C1: N increments of one key k, applied to a table that had no entry for
\* the fingerprint of k, with no eviction of the entry and no other key of
\* that fingerprint in between, leave one entry for k whose count is N and
\* whose size is the size of the last increment.
C1_CountAndLastSize ==
  \A f \in DOMAIN applied :
    applied[f].pure =>
      /\ f \in DOMAIN collection
      /\ collection[f].key = applied[f].key
      /\ collection[f].count = applied[f].n
      /\ collection[f].size = applied[f].last

\* At least two increments of one key have been applied to the entry the
\* key created, no other key of the fingerprint came in between, and the
\* lock is free.
C1_Witness ==
  \E f \in DOMAIN applied \cap DOMAIN collection :
    /\ applied[f].pure
    /\ applied[f].n >= 2
    /\ collection[f].count = applied[f].n
    /\ mutex = NoThread

\* C2: increment's read-modify-write and the sweep of prune exclude each
\* other: at most one thread is inside such a critical section, it holds the
\* mutex, and the count of every entry is the number of increments applied
\* to it since its creation, whichever threads issued them (no lost update).
C2_MutualExclusion ==
  /\ Cardinality({t \in Threads : InCritical(t)}) <= 1
  /\ \A t \in Threads : InCritical(t) => mutex = t
  /\ \A f \in DOMAIN applied :
       f \in DOMAIN collection /\ collection[f].count = applied[f].n

\* A caller is inside the read-modify-write of an entry while the ingestion
\* loop waits for the lock with an event of the same fingerprint.
C2_Witness ==
  /\ pc[Poller] = "inc_lock"
  /\ \E c \in Callers :
       /\ pc[c] = "inc_store"
       /\ hashKey(loc[c].key) = hashKey(loc[Poller].key)

\* C3: with a threshold T > 0, when a sweep is about to release the lock, the
\* sweep has examined exactly the entries present when it took the lock,
\* every entry still in the table had requestRate >= T when it was examined,
\* and every entry removed had requestRate < T when it was examined.
C3_SweepByRate ==
  (SweepFinished /\ config > 0) =>
    /\ {e.fp : e \in sweepLog} = sweepStart
    /\ DOMAIN collection \subseteq sweepStart
    /\ \A f \in DOMAIN collection :
         \E e \in sweepLog :
           e.fp = f /\ ~e.removed /\ ~RequestRateBelow(e.stat, e.at, config)
    /\ \A f \in sweepStart \ DOMAIN collection :
         \E e \in sweepLog :
           e.fp = f /\ e.removed /\ RequestRateBelow(e.stat, e.at, config)
    /\ \A e \in sweepLog : e.removed <=> e.fp \notin DOMAIN collection

\* A finished sweep that removed one entry and kept another.
C3_Witness ==
  /\ SweepFinished /\ config > 0
  /\ \E e1, e2 \in sweepLog : e1.removed /\ ~e2.removed

\* C4: with a threshold of 0 the pruning loop never takes the lock and never
\* enters a sweep, and no step removes an entry: getStatCount() never
\* decreases.
C4_PruningDisabled ==
  [][config = 0 =>
       /\ mutex' # Reaper
       /\ pc'[Reaper] \notin {"check", "lock", "scan"}
       /\ DOMAIN collection \subseteq DOMAIN collection'
       /\ Cardinality(DOMAIN collection') >= Cardinality(DOMAIN collection)]_vars

\* The pruning loop has run its whole life with a threshold of 0 and the
\* table still holds an entry whose rate is below one request per unit.
C4_Witness ==
  /\ config = 0
  /\ pc[Reaper] = "done"
  /\ \E f \in DOMAIN collection : RequestRateBelow(collection[f], now, 1)

\* C5: whenever no mutator holds the lock, getStatCount() is the number of
\* entries created by increment minus the number removed by sweeps.
C5_StatCount ==
  mutex = NoThread => Cardinality(DOMAIN collection) = balance

\* Every event has been applied, a sweep has removed an entry, one entry
\* that was incremented once is left, and the lock is free.
C5_Witness ==
  /\ mutex = NoThread
  /\ nEvents = MaxEvents
  /\ Cardinality(DOMAIN collection) = 1
  /\ \E f \in DOMAIN collection : collection[f].count = 1
  /\ barrier = << >>
  /\ \A t \in Threads : loc[t] = None

\* C14: every entry of the table has a count of at least 1; an entry's
\* firstSeenAt is the time of the increment that created it, and a later
\* increment changes neither it nor the key: it changes the size and adds one
\* to the count.
C14_CountAndFirstSeen ==
  [][/\ \A f \in DOMAIN collection' : collection'[f].count >= 1
     /\ \A f \in DOMAIN collection' \ DOMAIN collection :
          collection'[f].created = now /\ collection'[f].count = 1
     /\ \A f \in DOMAIN collection \cap DOMAIN collection' :
          /\ collection'[f].created = collection[f].created
          /\ collection'[f].key = collection[f].key
          /\ collection'[f] # collection[f] =>
               collection'[f].count = collection[f].count + 1]_vars

\* An entry created at an earlier time has been incremented again, with
\* another size.
C14_Witness ==
  \E f \in DOMAIN collection :
    /\ collection[f].count >= 2
    /\ collection[f].created < now
    /\ collection[f].size = 10
    /\ mutex = NoThread

\* C15: the table holds at most one entry per fingerprint, the entry of the
\* fingerprint of its key; increments of two distinct keys of one fingerprint
\* go to one entry, whose count is the number of increments of both keys,
\* whose size is that of the latest increment, and whose key stays the key
\* that created the entry.
C15_CollisionsMerge ==
  /\ \A f \in DOMAIN collection : hashKey(collection[f].key) = f
  /\ DOMAIN applied = DOMAIN collection
  /\ \A f \in DOMAIN applied :
       /\ collection[f].key = applied[f].key
       /\ collection[f].count = applied[f].n
       /\ collection[f].size = applied[f].last

\* An entry has taken the increments of two distinct keys, the second with a
\* size of its own.
C15_Witness ==
  \E f \in DOMAIN applied \cap DOMAIN collection :
    /\ ~applied[f].pure
    /\ applied[f].n = 2
    /\ collection[f].size # 1
    /\ mutex = NoThread

\* C19: when an increment(k, s) creates an entry for a fingerprint whose
\* entry a sweep has removed, the new entry is Stat(k, s) at the time of that
\* increment: count 1, size s, firstSeenAt now, nothing of the removed entry.
C19_FreshAfterEviction ==
  [][\A f \in (DOMAIN collection' \ DOMAIN collection) \cap evicted :
       \E t \in Threads :
         /\ pc[t] = "inc_store" /\ pc'[t] # "inc_store"
         /\ hashKey(loc[t].key) = f
         /\ collection'[f] = NewStat(loc[t].key, loc[t].size, now)]_vars

\* An entry removed by a sweep has been created again.
C19_Witness ==
  \E f \in evicted \cap DOMAIN collection :
    collection[f].count = 1 /\ collection[f].created > 0

\* C17: after every successful consume the backoff generator is at its
\* floor and the loop does not sleep, and after every empty poll the loop
\* sleeps the next duration of the generator; so the first empty poll after
\* a successful consume waits the floor duration.
C17_ResetOnSuccess ==
  [][/\ (pc[Poller] = "inc_store" /\ pc'[Poller] = "check") =>
          backoff' = 0 /\ backoffMs' = 0
     /\ (pc[Poller] = "consume" /\ pc'[Poller] = "check") =>
          backoffMs' = getNextBackOffMillis]_vars

\* C18: once the state is not RUNNING, the ingestion loop consumes at most
\* one more event, applies at most one more event and sleeps at most once
\* more before it exits, and the pruning loop starts at most one more sweep.
C18_OneMoreIteration ==
  [][~isRunning =>
       /\ Len(barrier') < Len(barrier) => late \cap {"consume", "apply"} = {}
       /\ (pc[Poller] = "inc_store" /\ pc'[Poller] = "check") =>
            "apply" \notin late
       /\ (pc[Poller] = "consume" /\ pc'[Poller] = "check" /\ backoffMs' > 0) =>
            "sleep" \notin late
       /\ (pc[Reaper] = "lock" /\ pc'[Reaper] = "scan") => "sweep" \notin late]_vars

\* After the state left RUNNING the ingestion loop has consumed and applied
\* an event and the pruning loop is inside a sweep.
C18_Witness ==
  /\ ~isRunning
  /\ {"consume", "apply", "sweep"} \subseteq late
  /\ pc[Reaper] = "scan"

----------------------------------------------------------------------------
\* Properties of the leaderboard, checked under SpecLeaders.

\* The snapshots of a result, as the set of <<position, Stat>>.
Snapshots(holder) == {holder[i] : i \in 1..Len(holder)}

\* C6: getLeaders(count, descending) returns one snapshot per entry of the
\* table, in an order that is non-increasing in count, and
\* getLeaders(count, ascending) of the same table is that sequence reversed:
\* the same elements, with ties in reversed relative order.
C6_LeadersByCount ==
  LET desc == leaders[sort_DESC]
      asc == leaders[sort_ASC] IN
  /\ (desc # None /\ desc.mode = mode_CALLS) =>
       /\ Len(desc.holder) = Cardinality(DOMAIN collection)
       /\ Snapshots(desc.holder) = {collection[f] : f \in DOMAIN collection}
       /\ \A i \in 1..(Len(desc.holder) - 1) :
            desc.holder[i].count >= desc.holder[i + 1].count
  /\ (asc # None /\ asc.mode = mode_CALLS) =>
       /\ Len(asc.holder) = Cardinality(DOMAIN collection)
       /\ Snapshots(asc.holder) = {collection[f] : f \in DOMAIN collection}
       /\ \A i \in 1..(Len(asc.holder) - 1) :
            asc.holder[i].count <= asc.holder[i + 1].count
  /\ (desc # None /\ asc # None /\ desc.mode = mode_CALLS /\ asc.mode = mode_CALLS) =>
       /\ Len(asc.holder) = Len(desc.holder)
       /\ \A i \in 1..Len(asc.holder) :
            asc.holder[i] = desc.holder[Len(desc.holder) + 1 - i]

\* Both orders by count have been queried of a table of three entries, two
\* of which tie below the third.
C6_Witness ==
  LET desc == leaders[sort_DESC]
      asc == leaders[sort_ASC] IN
  /\ desc # None /\ asc # None
  /\ desc.mode = mode_CALLS /\ asc.mode = mode_CALLS
  /\ Len(desc.holder) = 3
  /\ desc.holder[1].count > desc.holder[2].count
  /\ desc.holder[2].count = desc.holder[3].count
  /\ desc.holder[2] # desc.holder[3]
  /\ asc.holder[1] = desc.holder[3]

----------------------------------------------------------------------------
\* Properties of the lifecycle, checked under SpecLifecycle.

\* C7: the lifecycle state changes only by NEW -> RUNNING, made by a start()
\* call, RUNNING -> STOPPING, made by a shutdown() call, and STOPPING ->
\* TERMINATED, made by the destructor; it never moves backwards, never skips
\* a state, and never becomes RUNNING again.
C7_LinearLifecycle ==
  [][state' # state =>
       \/ /\ state = state_NEW /\ state' = state_RUNNING
          /\ \E c \in Callers : pc[c] = "idle" /\ pc'[c] = "start_reaper"
       \/ /\ state = state_RUNNING /\ state' = state_STOPPING
          /\ \E c \in Callers : pc[c] = "idle" /\ pc'[c] = "join_reaper"
       \/ /\ state = state_STOPPING /\ state' = state_TERMINATED
          /\ ~destroyed /\ destroyed']_vars

\* The engine went through all four states, with a second start() call and a
\* shutdown() call that found nothing to do on the way.
C7_Witness ==
  /\ state = state_TERMINATED
  /\ startsReturned >= 2
  /\ noopShutdowns # {}

\* C8: at most one start() call performs NEW -> RUNNING and spawns the loops:
\* no loop is ever spawned twice, once two start() calls have returned on an
\* engine that no shutdown() has stopped the state is RUNNING with one
\* ingestion loop and one pruning loop, and a start() call that finds the
\* engine started changes neither the state, nor the threads, nor the table.
C8_SingleStart ==
  /\ [](/\ spawned.reaper <= 1 /\ spawned.poller <= 1
        /\ Cardinality({c \in Callers : InStart(c)}) <= 1
        /\ ~aborted \/ destroyed
        /\ (startsReturned >= 2 /\ \A c \in Callers : ~InStart(c)) =>
             /\ state # state_NEW
             /\ spawned.reaper = 1 /\ spawned.poller = 1
             /\ state \in {state_NEW, state_RUNNING} => state = state_RUNNING)
  /\ [][(startsReturned' # startsReturned /\ pc' = pc) =>
          /\ state' = state
          /\ collection' = collection
          /\ spawned' = spawned
          /\ reaper_thread' = reaper_thread
          /\ poller_thread' = poller_thread]_vars

\* Two start() calls have returned, the engine is RUNNING and both loops run.
C8_Witness ==
  /\ startsReturned = 2
  /\ state = state_RUNNING
  /\ spawned.reaper = 1 /\ spawned.poller = 1
  /\ pc[Poller] \notin {"unborn", "done"}
  /\ pc[Reaper] \notin {"unborn", "done"}
  /\ \A c \in Callers : pc[c] = "idle"

\* C9: a shutdown() call that finds the state not RUNNING changes nothing:
\* the state, the table, the threads and the lock stay as they are, and the
\* caller is back at once, without waiting for a loop and without an
\* exception.
C9_ShutdownNoop ==
  [][(noopShutdowns' # noopShutdowns) =>
       /\ state # state_RUNNING
       /\ state' = state
       /\ collection' = collection
       /\ mutex' = mutex
       /\ reaper_thread' = reaper_thread
       /\ poller_thread' = poller_thread
       /\ aborted' = aborted
       /\ pc' = pc]_vars

\* shutdown() calls found nothing to do on an engine never started and on an
\* engine already STOPPING.
C9_Witness == noopShutdowns = {state_NEW, state_STOPPING}

\* C10: once a shutdown() call that performed RUNNING -> STOPPING has
\* returned, both loops have exited, and from then on neither loop takes the
\* lock, holds an event or consumes one from the queue.
C10_ShutdownWaits ==
  /\ [](shutdownDone =>
          /\ pc[Reaper] = "done" /\ pc[Poller] = "done"
          /\ reaper_thread = "joined" /\ poller_thread = "joined"
          /\ mutex \notin {Reaper, Poller}
          /\ loc[Poller] = None)
  /\ [][shutdownDone => Len(barrier') >= Len(barrier)]_vars

\* shutdown() has returned while an event is still in the queue.
C10_Witness ==
  /\ shutdownDone
  /\ state = state_STOPPING
  /\ barrier # << >>

\* C11: a shutdown() call that performed RUNNING -> STOPPING waits for the
\* pruning loop first and begins to wait for the ingestion loop only once the
\* pruning loop has returned and its thread is joined.
C11_PruningLoopFirst ==
  /\ \A c \in Callers :
       pc[c] = "join_poller" => reaper_thread = "joined" /\ Returned(Reaper)
  /\ poller_thread = "joined" => reaper_thread = "joined"

\* shutdown() waits for the ingestion loop, which still runs, after the
\* pruning loop has returned.
C11_Witness ==
  /\ \E c \in Callers : pc[c] = "join_poller"
  /\ reaper_thread = "joined"
  /\ poller_thread = "joinable"
  /\ ~Returned(Poller)

\* C11 as the specification states it: shutdown() waits for the ingestion
\* loop first, so while it waits for the pruning loop the ingestion loop has
\* returned and its thread is joined.
C11_IngestionLoopFirst ==
  \A c \in Callers :
    (pc[c] = "join_reaper" /\ reaper_thread = "joinable") =>
      poller_thread = "joined" /\ Returned(Poller)

\* C12: the destructor moves the state to TERMINATED exactly when it finds
\* it STOPPING, leaves it unchanged otherwise, and completes without an
\* exception and without aborting the process.
C12_TeardownCompletes ==
  [][(destroyed' /\ ~destroyed) =>
       /\ state' = IF state = state_STOPPING THEN state_TERMINATED ELSE state
       /\ ~aborted']_vars

----------------------------------------------------------------------------
\* Properties of the readers, checked under SpecReaders.

\* C13: no reader reads the table while increment or a sweep of prune is
\* inside its critical section: during the read of getStatCount no other
\* thread holds the lock.
C13_ReadersExcluded ==
  statCount # None => statCount.holder = NoThread

----------------------------------------------------------------------------
\* Termination and eviction, checked under SpecFair.

\* C16: once shutdown() has set the state to STOPPING, both loops exit and
\* shutdown() returns, whatever the threshold and whatever the queue holds.
C16_ShutdownTerminates ==
  (state = state_STOPPING) ~>
    (shutdownDone /\ Returned(Poller) /\ Returned(Reaper))

\* shutdown() has returned with pruning disabled and an event left in the
\* queue.
C16_Witness ==
  /\ shutdownDone
  /\ config = 0
  /\ Returned(Poller) /\ Returned(Reaper)
  /\ barrier # << >>

\* C20: with a threshold T > 0 and the engine RUNNING, an entry that
\* receives no further increment is removed, whatever its count, once its
\* rate has decayed below T; the clock of the model stops at MaxTime, so the
\* entries concerned are those whose rate is below T by then.
C20_EventualEviction ==
  \A n \in 1..MaxEvents, t0 \in 0..MaxTime :
    LET f == hashKey("a")
        Held == /\ f \in DOMAIN collection
                /\ collection[f].count = n
                /\ collection[f].created = t0
    IN (/\ Held
        /\ isRunning
        /\ config > 0
        /\ RequestRateBelow(collection[f], MaxTime, config))
         ~> (~Held \/ ~isRunning)

\* A sweep has removed an entry of count 2 that an earlier sweep had kept.
C20_Witness ==
  /\ pc[Reaper] = "scan"
  /\ \E e \in sweepLog :
       /\ e.removed
       /\ e.stat.count >= 2
       /\ ~RequestRateBelow(e.stat, e.stat.created + 1, config)

====
